---- MODULE Spec2Model ----
(***************************************************************************)
(* A model of the CertCenter REST client: the request-shaping dispatcher   *)
(* apiRequest.do (handler.go) and the operation functions that call it.    *)
(*                                                                         *)
(* Text (URLs, JSON documents, query strings) is a sequence of string      *)
(* tokens: concatenation of Go strings is \o of the sequences.  A request  *)
(* object is a record with a "type" field naming its Go type and one field *)
(* per struct field.  One action is one whole call of an operation         *)
(* function: shaping, the single round trip and the handling of the        *)
(* response, whose content is chosen by the environment.                   *)
(***************************************************************************)
EXTENDS Integers, Sequences, FiniteSets, TLC

VARIABLES
    Bearer,       \* the process-wide bearer token (types.go, var Bearer)
    zeroOmitted,  \* whether the query encoder leaves out zero-valued fields
    call,         \* the call just made: function, operation name, flags, request
    req,          \* the apiRequest of that call when it ended
    sent,         \* the HTTP requests the call sent, in order
    outcome,      \* how the call ended: returned (with an error value) or aborted
    decoded,      \* whether json.Unmarshal was applied to the response body
    stdout,       \* the lines the call printed
    heap,         \* the caller-owned request objects concurrent calls are given
    calls         \* the concurrent calls: position and locals of each

\* what the one-call-at-a-time machine records, and what the concurrent one does
seqVars == <<call, req, sent, outcome, decoded, stdout>>
concVars == <<heap, calls>>

vars == <<Bearer, zeroOmitted, call, req, sent, outcome, decoded, stdout, heap, calls>>

----------------------------------------------------------------------------
(* Bounds of the model *)

\* order identifiers are 0, OrderIDStep, ..., MaxOrderID * OrderIDStep
MaxOrderID == 2
OrderIDStep == 7
\* the declared length of a response of ordinary size
SmallLen == 2
\* at most MaxIncludes of the six include flags of a request are set
MaxIncludes == 1
\* SubjectAltNameCount is 0..MaxCount
MaxCount == 1
\* the caller-owned request objects that concurrent calls can be given
NumObjects == 2

OrderIDs == {n * OrderIDStep : n \in 0..MaxOrderID}

----------------------------------------------------------------------------
(* Program constants *)

CC_PARAM_TYPE_QS == 1
CC_PARAM_TYPE_PATH == 2
CC_PARAM_TYPE_BODY == 4

\* 1<<24, the largest content length accepted
MaxContentLength == 16777216

rawURL == <<"https://api.certcenter.com/rest/v1/">>

\* tls.VersionTLS12
MinVersion == "TLS1.2"

----------------------------------------------------------------------------
(* Text *)

Digit(d) == <<"0", "1", "2", "3", "4", "5", "6", "7", "8", "9">>[d + 1]

\* fmt's %d
RECURSIVE Itoa(_)
Itoa(n) ==
    IF n < 0 THEN <<"-">> \o Itoa(-n)
    ELSE IF n < 10 THEN <<Digit(n)>>
    ELSE Itoa(n \div 10) \o <<Digit(n % 10)>>

\* fmt's %s of a Go string: the empty string adds nothing
Str(s) == IF s = "" THEN <<>> ELSE <<s>>

Contains(text, tok) == \E i \in 1..Len(text) : text[i] = tok

----------------------------------------------------------------------------
(* The request types (types.go): the fields of each, in declaration order. *)
(* kind is the Go type of the field: "int" (int64, int), "bool", "str",    *)
(* "time" (time.Time), "ptr" (a pointer to a nested object, "" when nil),  *)
(* "obj" (a nested object held by value), "strs" ([]string, "" when nil).  *)
(* omitempty is the json tag's option, url the key of the url tag (the     *)
(* field's name when it has none).  A nested object is one opaque token.   *)

F(name, kind) == [name |-> name, kind |-> kind, omitempty |-> FALSE, url |-> name]
FO(name, kind) == [name |-> name, kind |-> kind, omitempty |-> TRUE, url |-> name]
FU(name, kind, url) == [name |-> name, kind |-> kind, omitempty |-> FALSE, url |-> url]

IncludeFields ==
    << FU("IncludeFulfillment", "bool", "includeFulfillment"),
       FU("IncludeOrderParameters", "bool", "includeOrderParameters"),
       FU("IncludeBillingDetails", "bool", "includeBillingDetails"),
       FU("IncludeContacts", "bool", "includeContacts"),
       FU("IncludeOrganizationInfos", "bool", "includeOrganizationInfos"),
       FU("IncludeDCVStatus", "bool", "includeDCVStatus") >>

UserData ==
    << FO("UsernameOrUserId", "str"), FO("FullName", "str"), FO("Email", "str"),
       FO("Username", "str"), FO("Password", "str"), FO("Roles", "strs"),
       FO("Mobile", "str"), FO("Timezone", "str"), FO("Locale", "str"),
       FO("SpecialProductAvailability", "bool"), FO("Scope", "str"),
       FO("Active", "bool"), FO("TwoFactorEnabled", "bool"),
       FO("InsertDate", "int"), FO("LastUpdateDate", "int"),
       FO("LastPasswordChangeDate", "int") >>

ProductDetailsRequest == << F("ProductCode", "str") >>
QuoteRequest ==
    << F("ProductCode", "str"), F("SubjectAltNameCount", "int"),
       F("ValidityPeriod", "int"), F("ServerCount", "int") >>
ValidateCSRRequest == << F("CSR", "str") >>
UserAgreementRequest == << F("ProductCode", "str") >>
ApproverListRequest ==
    << F("CommonName", "str"), FO("ProductCode", "str"), FO("DNSNames", "str") >>
OrderRequest ==
    << FO("OrganizationInfo", "ptr"), FO("OrderParameters", "ptr"),
       FO("AdminContact", "ptr"), FO("TechContact", "ptr") >>
PutApproverEmailRequest == << F("CertCenterOrderID", "int"), F("ApproverEmail", "str") >>
ResendApproverEmailRequest == << F("CertCenterOrderID", "int") >>
GetOrdersRequest ==
    << F("Status", "str"), F("ProductType", "str"), F("CommonName", "str") >>
    \o IncludeFields
GetModifiedOrdersRequest == << F("FromDate", "time"), F("ToDate", "time") >> \o IncludeFields
GetOrderRequest == << F("CertCenterOrderID", "int") >> \o IncludeFields
DeleteOrderRequest == << F("CertCenterOrderID", "int") >>
ReissueRequest ==
    << F("CertCenterOrderID", "int"), F("OrderParameters", "obj"), F("ReissueEmail", "str") >>
RevokeRequest ==
    << F("CertCenterOrderID", "int"), FO("RevokeReason", "str"), FO("Certificate", "str") >>
ValidateNameRequest == << F("CommonName", "str"), F("GeneratePrivateKey", "bool") >>
DNSDataRequest == << F("ProductCode", "str"), F("CSR", "str") >>
FileDataRequest == << F("ProductCode", "str"), F("CSR", "str") >>
VulnerabilityAssessmentRequest ==
    << F("CertCenterOrderID", "int"), F("ServiceStatus", "str"),
       F("EmailNotificationLevel", "str") >>
VulnerabilityAssessmentRescanRequest == << F("CertCenterOrderID", "int") >>
UpdateUserRequest == UserData
GetUserRequest == UserData
DeleteUserRequest == << F("UsernameOrUserId", "str") >>

\* the fields of the Go type named t
Fields(t) ==
    CASE t = "ProductDetailsRequest" -> ProductDetailsRequest
      [] t = "QuoteRequest" -> QuoteRequest
      [] t = "ValidateCSRRequest" -> ValidateCSRRequest
      [] t = "UserAgreementRequest" -> UserAgreementRequest
      [] t = "ApproverListRequest" -> ApproverListRequest
      [] t = "OrderRequest" -> OrderRequest
      [] t = "PutApproverEmailRequest" -> PutApproverEmailRequest
      [] t = "ResendApproverEmailRequest" -> ResendApproverEmailRequest
      [] t = "GetOrdersRequest" -> GetOrdersRequest
      [] t = "GetModifiedOrdersRequest" -> GetModifiedOrdersRequest
      [] t = "GetOrderRequest" -> GetOrderRequest
      [] t = "DeleteOrderRequest" -> DeleteOrderRequest
      [] t = "ReissueRequest" -> ReissueRequest
      [] t = "RevokeRequest" -> RevokeRequest
      [] t = "ValidateNameRequest" -> ValidateNameRequest
      [] t = "DNSDataRequest" -> DNSDataRequest
      [] t = "FileDataRequest" -> FileDataRequest
      [] t = "VulnerabilityAssessmentRequest" -> VulnerabilityAssessmentRequest
      [] t = "VulnerabilityAssessmentRescanRequest" -> VulnerabilityAssessmentRescanRequest
      [] t = "UpdateUserRequest" -> UpdateUserRequest
      [] t = "GetUserRequest" -> GetUserRequest
      [] t = "DeleteUserRequest" -> DeleteUserRequest
      [] OTHER -> <<>>

\* the zero time.Time, as time.Time prints it
ZeroTime == "0001-01-01T00:00:00Z"

\* Go's zero value of a kind
Zero(kind) ==
    CASE kind = "int" -> 0
      [] kind = "bool" -> FALSE
      [] kind = "time" -> ZeroTime
      [] OTHER -> ""

\* the descriptor of the field named n of type t (a type declares a name once)
Field(t, n) == Fields(t)[CHOOSE i \in 1..Len(Fields(t)) : Fields(t)[i].name = n]

\* new(T): the request object of type t with every field at its zero value
New(t) ==
    [n \in {"type"} \cup {Fields(t)[i].name : i \in 1..Len(Fields(t))} |->
        IF n = "type" THEN t ELSE Zero(Field(t, n).kind)]

\* the request of the operations that pass none (a nil interface value)
NilRequest == [type |-> "nil"]

----------------------------------------------------------------------------
(* Encoders *)

DQuote == "\""

\* encoding/json writes &, < and > of a string as \u escapes
JsonEscape(s) == IF s = "a&b" THEN "a\\u0026b" ELSE s

\* the JSON text of one field's value
JsonValue(kind, v) ==
    CASE kind = "int" -> Itoa(v)
      [] kind = "bool" -> IF v THEN <<"true">> ELSE <<"false">>
      [] kind = "str" -> <<DQuote>> \o Str(JsonEscape(v)) \o <<DQuote>>
      [] kind = "time" -> <<DQuote, v, DQuote>>
      [] kind = "ptr" -> IF v = "" THEN <<"null">> ELSE <<v>>
      [] kind = "strs" -> IF v = "" THEN <<"null">> ELSE <<v>>
      [] OTHER -> <<v>>

\* omitempty leaves out false, 0, a nil pointer, an empty slice and an empty
\* string; a struct held by value and a time.Time are never empty
JsonEmpty(kind, v) == kind \in {"int", "bool", "str", "ptr", "strs"} /\ v = Zero(kind)

RECURSIVE MarshalFields(_, _, _)
MarshalFields(r, fs, first) ==
    IF fs = <<>> THEN <<>>
    ELSE LET f == Head(fs) IN
         IF f.omitempty /\ JsonEmpty(f.kind, r[f.name])
         THEN MarshalFields(r, Tail(fs), first)
         ELSE (IF first THEN <<>> ELSE <<",">>)
              \o <<DQuote, f.name, DQuote, ":">> \o JsonValue(f.kind, r[f.name])
              \o MarshalFields(r, Tail(fs), FALSE)

\* json.Marshal of a request object: the exported fields in declaration order
\* under their names (no type here renames a field for JSON), null for nil
Marshal(r) ==
    IF r.type = "nil" THEN <<"null">>
    ELSE <<"{">> \o MarshalFields(r, Fields(r.type), TRUE) \o <<"}">>

(* The query-string encoder, package query: query.Values turns a request   *)
(* object into url.Values and Encode writes them sorted by key.  The       *)
(* package is not among the sources; this follows its description, "a      *)
(* query string built from the request object's fields", and leaves open   *)
(* whether a zero-valued field is written (omitZero).                      *)

\* every key a request type can give, in the byte order Encode sorts by
KeyOrder ==
    << "Active", "AdminContact", "ApproverEmail", "CSR", "CertCenterOrderID",
       "Certificate", "CommonName", "DNSNames", "Email",
       "EmailNotificationLevel", "FromDate", "FullName",
       "GeneratePrivateKey", "InsertDate", "LastPasswordChangeDate",
       "LastUpdateDate", "Locale", "Mobile", "OrderParameters",
       "OrganizationInfo", "Password", "ProductCode", "ProductType",
       "ReissueEmail", "RevokeReason", "Roles", "Scope", "ServerCount",
       "ServiceStatus", "SpecialProductAvailability", "Status",
       "SubjectAltNameCount", "TechContact", "Timezone", "ToDate",
       "TwoFactorEnabled", "Username", "UsernameOrUserId", "ValidityPeriod",
       "includeBillingDetails", "includeContacts", "includeDCVStatus",
       "includeFulfillment", "includeOrderParameters",
       "includeOrganizationInfos" >>

\* url.QueryEscape of the strings the model uses
QueryEscape(s) ==
    CASE s = "a@b.c" -> "a%40b.c"
      [] s = "a&b" -> "a%26b"
      [] s = "%zz" -> "%25zz"
      [] s = "0001-01-01T00:00:00Z" -> "0001-01-01T00%3A00%3A00Z"
      [] s = "2016-01-02T03:04:05Z" -> "2016-01-02T03%3A04%3A05Z"
      [] s = "10000-01-01T00:00:00Z" -> "10000-01-01T00%3A00%3A00Z"
      [] OTHER -> s

\* the text of one field's value in a query string
QueryValue(kind, v) ==
    CASE kind = "int" -> Itoa(v)
      [] kind = "bool" -> IF v THEN <<"true">> ELSE <<"false">>
      [] OTHER -> Str(QueryEscape(v))

\* the fields of r written to the query string: their names
QueryFields(r, omitZero) ==
    IF r.type = "nil" THEN {}
    ELSE {Fields(r.type)[i].name : i \in
            {j \in 1..Len(Fields(r.type)) :
                LET f == Fields(r.type)[j]
                IN  ~(omitZero /\ r[f.name] = Zero(f.kind))}}

RECURSIVE EncodeFrom(_, _, _, _)
EncodeFrom(r, names, k, first) ==
    IF k > Len(KeyOrder) THEN <<>>
    ELSE IF \E n \in names : Field(r.type, n).url = KeyOrder[k]
    THEN LET f == Field(r.type, CHOOSE n \in names : Field(r.type, n).url = KeyOrder[k])
         IN  (IF first THEN <<>> ELSE <<"&">>)
             \o <<f.url, "=">> \o QueryValue(f.kind, r[f.name])
             \o EncodeFrom(r, names, k + 1, FALSE)
    ELSE EncodeFrom(r, names, k + 1, first)

\* query.Values(r) followed by Encode()
Values(r, omitZero) == EncodeFrom(r, QueryFields(r, omitZero), 1, TRUE)

----------------------------------------------------------------------------
(* Errors, responses and results *)

\* an error value; Nil is Go's nil error
Error(kind, code) == [kind |-> kind, code |-> code]
Nil == Error("nil", 0)

\* x.(*T) succeeds when the dynamic type of the request is *T
IsType(r, t) == r.type = t

\* Time.MarshalJSON refuses a year outside [0, 9999]
OutOfRangeTime == "10000-01-01T00:00:00Z"

\* json.Marshal fails on a request that holds such a time
MarshalFails(r) ==
    \E i \in 1..Len(Fields(r.type)) :
        /\ Fields(r.type)[i].kind = "time"
        /\ r[Fields(r.type)[i].name] = OutOfRangeTime

\* http.NewRequest parses the URL: an invalid percent escape in the path
\* makes it fail (the methods used are all valid)
NewRequestFails(httpMethod, url) == Contains(url, "%zz")

\* Unmarshal with its error dropped
UnmarshalNoError(data, result) ==
    CASE data.len = 0 -> [err |-> Nil, result |-> result]
      [] data.doc = "garbage" -> [err |-> Nil, result |-> result]
      [] data.doc = "mismatch" ->
            [err |-> Nil, result |-> [result EXCEPT !.data = "partial"]]
      [] OTHER -> [err |-> Nil, result |-> [result EXCEPT !.data = "full"]]

\* json.Unmarshal(data, &req.result): empty or malformed text is rejected
\* before anything is stored; a well-formed document whose values do not fit
\* the result type is stored as far as it fits and reported
Unmarshal(data, result) ==
    CASE data.len = 0 -> [err |-> Error("decode", 0), result |-> result]
      [] data.doc = "garbage" -> [err |-> Error("decode", 0), result |-> result]
      [] data.doc = "mismatch" ->
            [err |-> Error("decode", 0), result |-> [result EXCEPT !.data = "partial"]]
      [] OTHER -> [err |-> Nil, result |-> [result EXCEPT !.data = "full"]]

\* new(T) of a result type
NewResult(t) == [type |-> t, data |-> "zero"]

\* the apiRequest as new(apiRequest) leaves it
NewApiRequest ==
    [method |-> "", httpMethod |-> "", url |-> <<>>, result |-> NewResult("nil"),
     request |-> NilRequest, client |-> "nil", statusCode |-> 0]

----------------------------------------------------------------------------
(* apiRequest.do, lines 15-99: the shaping of the request.  The value is   *)
(* how shaping ended (abort: a failed type assertion; err: an error to     *)
(* return), the method, URL and payload built and the request object as    *)
(* shaping leaves it.                                                      *)

Shaped(httpMethod, url, hasBody, postData, request, printed) ==
    [abort |-> FALSE, err |-> Nil, httpMethod |-> httpMethod, url |-> url,
     hasBody |-> hasBody, postData |-> postData, request |-> request,
     printed |-> printed]

ShapeError(err, httpMethod, url, request) ==
    [Shaped(httpMethod, url, FALSE, <<>>, request, <<>>) EXCEPT !.err = err]

ShapeAbort(httpMethod, url, request) ==
    [Shaped(httpMethod, url, FALSE, <<>>, request, <<>>) EXCEPT !.abort = TRUE]

\* ShapePath without the remapping of DeleteUser to the User path
ShapePathNoRemap(apiMethod, url, request) ==
    IF apiMethod = "ApproverEmail" THEN
        IF IsType(request, "ResendApproverEmailRequest")
        THEN Shaped("POST", url \o <<"/">> \o Itoa(request.CertCenterOrderID),
                    FALSE, <<>>, request, <<>>)
        ELSE ShapeAbort("POST", url, request)
    ELSE IF apiMethod = "Order" THEN
        IF IsType(request, "DeleteOrderRequest")
        THEN Shaped("DELETE", url \o <<"/">> \o Itoa(request.CertCenterOrderID),
                    FALSE, <<>>, request, <<>>)
        ELSE ShapeAbort("DELETE", url, request)
    ELSE IF apiMethod = "VulnerabilityAssessment" THEN
        IF IsType(request, "VulnerabilityAssessmentRequest")
        THEN Shaped("GET", url \o <<"/">> \o Itoa(request.CertCenterOrderID),
                    FALSE, <<>>, request, <<>>)
        ELSE ShapeAbort("GET", url, request)
    ELSE IF apiMethod = "User" THEN
        IF IsType(request, "GetUserRequest")
        THEN Shaped("GET", url \o <<"/">> \o Str(request.UsernameOrUserId),
                    FALSE, <<>>, request, <<>>)
        ELSE ShapeAbort("GET", url, request)
    ELSE IF apiMethod = "DeleteUser" THEN
        IF IsType(request, "DeleteUserRequest")
        THEN Shaped("DELETE", url \o <<"/">> \o Str(request.UsernameOrUserId),
                    FALSE, <<>>, request, <<request.UsernameOrUserId>>)
        ELSE ShapeAbort("DELETE", url, request)
    ELSE Shaped("GET", url, FALSE, <<>>, request, <<>>)

\* case CC_PARAM_TYPE_PATH
ShapePath(apiMethod, url, request) ==
    IF apiMethod = "ApproverEmail" THEN
        IF IsType(request, "ResendApproverEmailRequest")
        THEN Shaped("POST", url \o <<"/">> \o Itoa(request.CertCenterOrderID),
                    FALSE, <<>>, request, <<>>)
        ELSE ShapeAbort("POST", url, request)
    ELSE IF apiMethod = "Order" THEN
        IF IsType(request, "DeleteOrderRequest")
        THEN Shaped("DELETE", url \o <<"/">> \o Itoa(request.CertCenterOrderID),
                    FALSE, <<>>, request, <<>>)
        ELSE ShapeAbort("DELETE", url, request)
    ELSE IF apiMethod = "VulnerabilityAssessment" THEN
        IF IsType(request, "VulnerabilityAssessmentRequest")
        THEN Shaped("GET", url \o <<"/">> \o Itoa(request.CertCenterOrderID),
                    FALSE, <<>>, request, <<>>)
        ELSE ShapeAbort("GET", url, request)
    ELSE IF apiMethod = "User" THEN
        IF IsType(request, "GetUserRequest")
        THEN Shaped("GET", url \o <<"/">> \o Str(request.UsernameOrUserId),
                    FALSE, <<>>, request, <<>>)
        ELSE ShapeAbort("GET", url, request)
    ELSE IF apiMethod = "DeleteUser" THEN
        IF IsType(request, "DeleteUserRequest")
        THEN Shaped("DELETE", rawURL \o <<"User", "/">> \o Str(request.UsernameOrUserId),
                    FALSE, <<>>, request, <<request.UsernameOrUserId>>)
        ELSE ShapeAbort("DELETE", url, request)
    ELSE Shaped("GET", url, FALSE, <<>>, request, <<>>)

\* case CC_PARAM_TYPE_QS | CC_PARAM_TYPE_PATH
ShapeQsPath(apiMethod, url, request, omitZero, valuesFail) ==
    IF apiMethod = "ApproverEmail" THEN
        IF IsType(request, "PutApproverEmailRequest")
        THEN Shaped("PUT",
                    url \o <<"/">> \o Itoa(request.CertCenterOrderID)
                        \o <<"?", "ApproverEmail", "=">> \o Str(request.ApproverEmail),
                    FALSE, <<>>, request, <<>>)
        ELSE ShapeAbort("PUT", url, request)
    ELSE IF apiMethod = "Order" THEN
        IF valuesFail THEN ShapeError(Error("values", 0), "GET", url, request)
        ELSE IF IsType(request, "GetOrderRequest")
        THEN Shaped("GET",
                    url \o <<"/">> \o Itoa(request.CertCenterOrderID) \o <<"?">>
                        \o Values(request, omitZero),
                    FALSE, <<>>, request, <<>>)
        ELSE ShapeAbort("GET", url, request)
    ELSE Shaped("GET", url, FALSE, <<>>, request, <<>>)

\* lines 93-97: the request object as the branch left it is serialized
WithBody(s) ==
    IF s.abort THEN s
    ELSE IF MarshalFails(s.request)
    THEN ShapeError(Error("marshal", 0), s.httpMethod, s.url, s.request)
    ELSE [s EXCEPT !.hasBody = TRUE, !.postData = Marshal(s.request)]

\* case CC_PARAM_TYPE_BODY | CC_PARAM_TYPE_PATH
ShapeBodyPath(apiMethod, url, request) ==
    WithBody(IF apiMethod = "Revoke" THEN
                 IF IsType(request, "RevokeRequest")
                 THEN Shaped("DELETE", url \o <<"/">> \o Itoa(request.CertCenterOrderID),
                             FALSE, <<>>, request, <<>>)
                 ELSE ShapeAbort("DELETE", url, request)
             ELSE IF apiMethod = "User" THEN
                 IF IsType(request, "UpdateUserRequest")
                 THEN Shaped("POST", url \o <<"/">> \o Str(request.UsernameOrUserId),
                             FALSE, <<>>,
                             [request EXCEPT !.UsernameOrUserId = ""], <<>>)
                 ELSE ShapeAbort("POST", url, request)
             ELSE Shaped("GET", url, FALSE, <<>>, request, <<>>))

\* the switch on ParamType[0]; without a ParamType nothing is added
Shape(apiMethod, ParamType, request, omitZero, valuesFail) ==
    LET url == rawURL \o <<apiMethod>>
        paramType == ParamType[1]
    IN  IF Len(ParamType) = 0 THEN Shaped("GET", url, FALSE, <<>>, request, <<>>)
        ELSE IF paramType = CC_PARAM_TYPE_QS THEN
            IF valuesFail THEN ShapeError(Error("values", 0), "GET", url, request)
            ELSE Shaped("GET", url \o <<"?">> \o Values(request, omitZero),
                        FALSE, <<>>, request, <<>>)
        ELSE IF paramType = CC_PARAM_TYPE_BODY THEN
            IF MarshalFails(request)
            THEN ShapeError(Error("marshal", 0), "POST", url, request)
            ELSE Shaped("POST", url, TRUE, Marshal(request), request, <<>>)
        ELSE IF paramType = CC_PARAM_TYPE_PATH THEN ShapePath(apiMethod, url, request)
        ELSE IF paramType = CC_PARAM_TYPE_QS + CC_PARAM_TYPE_PATH
        THEN ShapeQsPath(apiMethod, url, request, omitZero, valuesFail)
        ELSE IF paramType = CC_PARAM_TYPE_BODY + CC_PARAM_TYPE_PATH
        THEN ShapeBodyPath(apiMethod, url, request)
        ELSE Shaped("GET", url, FALSE, <<>>, request, <<>>)

\* whether shaping calls query.Values
CallsValues(apiMethod, ParamType) ==
    /\ Len(ParamType) > 0
    /\ \/ ParamType[1] = CC_PARAM_TYPE_QS
       \/ ParamType[1] = CC_PARAM_TYPE_QS + CC_PARAM_TYPE_PATH /\ apiMethod = "Order"

----------------------------------------------------------------------------
(* The round trip: what client.Do gives back.  err is a transport failure  *)
(* (no response); otherwise the response has a status, a declared          *)
(* ContentLength (-1 when unknown), a body (its length, and what the text  *)
(* is: "json" fits the result type, "mismatch" is well-formed but does not *)
(* fit, "garbage" is not JSON) and readErr, whether reading the body fails.*)

TransportError ==
    [err |-> TRUE, StatusCode |-> 0, ContentLength |-> 0,
     body |-> [len |-> 0, doc |-> "garbage"], readErr |-> FALSE]

StatusCodes == {200, 401, 404, 406, 417, 500}

ContentLengths == {-1, 0, SmallLen, MaxContentLength, MaxContentLength + 1}

BodyLengths == {0, SmallLen, MaxContentLength, MaxContentLength + 1}

Docs == {"json", "mismatch", "garbage"}

\* a declared length is the length of the body that can be read; a response
\* that is rejected or unreadable is listed once, whatever its body; the
\* three kinds of text are told apart on the bodies of ordinary size
Responses ==
    {r \in [err : {FALSE}, StatusCode : StatusCodes, ContentLength : ContentLengths,
            body : [len : BodyLengths, doc : Docs], readErr : BOOLEAN] :
        /\ r.body.len = 0 => r.body.doc = "garbage"
        /\ r.body.len > SmallLen => r.body.doc = "json"
        /\ r.ContentLength >= 0 /\ ~r.readErr => r.body.len = r.ContentLength
        /\ r.readErr => r.body = [len |-> 0, doc |-> "garbage"]
        /\ r.ContentLength = 0 \/ r.ContentLength > MaxContentLength => ~r.readErr}

Nets == {TransportError} \cup Responses

\* the http.Client of lines 23-30
NewClient == [MinVersion |-> MinVersion, PreferServerCipherSuites |-> TRUE]

\* NewRequest with the Authorization header added twice
NewRequestTwoHeaders(httpMethod, url, hasBody, postData, bearer) ==
    [method |-> httpMethod, url |-> url, hasBody |-> hasBody, body |-> postData,
     header |-> ("Authorization" :> <<(<<"Bearer ">> \o Str(bearer)),
                                      (<<"Bearer ">> \o Str(bearer))>>)
                @@ ("Content-Type" :> <<(<<"application/json; charset=utf8">>)>>)]

\* the request of lines 101-107: Header.Add appends a value, Header.Set
\* replaces the values
NewRequest(httpMethod, url, hasBody, postData, bearer) ==
    [method |-> httpMethod, url |-> url, hasBody |-> hasBody, body |-> postData,
     header |-> ("Authorization" :> (<<>> \o <<(<<"Bearer ">> \o Str(bearer))>>))
                @@ ("Content-Type" :> <<(<<"application/json; charset=utf8">>)>>)]

Returned(err) == [kind |-> "return", err |-> err]
Aborted == [kind |-> "panic", err |-> Nil]

Ended(r, s, o, d, p) == [req |-> r, sent |-> s, outcome |-> o, decoded |-> d, printed |-> p]

\* Receive with a status switch that has no default case: only 401 is an error
ReceiveNoDefault(r, request, net, printed) ==
    IF net.err
    \* response is nil and "defer response.Body.Close()" dereferences it
    THEN Ended(r, <<request>>, Aborted, FALSE, printed)
    ELSE IF net.ContentLength > MaxContentLength \/ net.ContentLength = 0
    THEN Ended(r, <<request>>, Returned(Error("length", 0)), FALSE, printed)
    ELSE IF net.readErr
    THEN Ended(r, <<request>>, Returned(Error("read", 0)), FALSE, printed)
    ELSE LET r2 == [r EXCEPT !.statusCode = net.StatusCode] IN
         IF FALSE
         THEN Ended(r2, <<request>>, Returned(Error("status", net.StatusCode)),
                    FALSE, printed)
         ELSE IF net.StatusCode = 401
         THEN Ended(r2, <<request>>, Returned(Error("auth", 0)), FALSE, printed)
         ELSE LET u == Unmarshal(net.body, r2.result)
              IN  Ended([r2 EXCEPT !.result = u.result], <<request>>,
                        Returned(u.err), TRUE, printed)

\* lines 109-137: the round trip and the handling of the response
Receive(r, request, net, printed) ==
    IF net.err
    \* response is nil and "defer response.Body.Close()" dereferences it
    THEN Ended(r, <<request>>, Aborted, FALSE, printed)
    ELSE IF net.ContentLength > MaxContentLength \/ net.ContentLength = 0
    THEN Ended(r, <<request>>, Returned(Error("length", 0)), FALSE, printed)
    ELSE IF net.readErr
    THEN Ended(r, <<request>>, Returned(Error("read", 0)), FALSE, printed)
    ELSE LET r2 == [r EXCEPT !.statusCode = net.StatusCode] IN
         IF net.StatusCode # 200 /\ net.StatusCode \notin {401, 417, 406}
         THEN Ended(r2, <<request>>, Returned(Error("status", net.StatusCode)),
                    FALSE, printed)
         ELSE IF net.StatusCode = 401
         THEN Ended(r2, <<request>>, Returned(Error("auth", 0)), FALSE, printed)
         ELSE LET u == Unmarshal(net.body, r2.result)
              IN  Ended([r2 EXCEPT !.result = u.result], <<request>>,
                        Returned(u.err), TRUE, printed)

\* lines 101-104 after a shaping that ended as s: the apiRequest and the
\* http.Request built from it; sends tells whether the call gets as far as
\* client.Do
Prepared(s, result, apiMethod, bearer) ==
    LET r == [NewApiRequest EXCEPT !.result = result, !.request = s.request,
                                   !.httpMethod = s.httpMethod, !.method = apiMethod,
                                   !.url = s.url, !.client = NewClient]
        unsent == NewRequest("", <<>>, FALSE, <<>>, "")
    IN  IF s.abort
        THEN [sends |-> FALSE, request |-> unsent,
              end |-> Ended(r, <<>>, Aborted, FALSE, s.printed)]
        ELSE IF s.err # Nil
        THEN [sends |-> FALSE, request |-> unsent,
              end |-> Ended(r, <<>>, Returned(s.err), FALSE, s.printed)]
        ELSE IF NewRequestFails(s.httpMethod, s.url)
        THEN [sends |-> FALSE, request |-> unsent,
              end |-> Ended(r, <<>>, Returned(Error("newrequest", 0)), FALSE, s.printed)]
        ELSE [sends |-> TRUE,
              request |-> NewRequest(s.httpMethod, s.url, s.hasBody, s.postData, bearer),
              end |-> Ended(r, <<>>, Returned(Nil), FALSE, s.printed)]

\* lines 15-104
Prepare(result, request, apiMethod, ParamType, omitZero, valuesFail, bearer) ==
    Prepared(Shape(apiMethod, ParamType, request, omitZero, valuesFail),
             result, apiMethod, bearer)

\* Finish with a retry: a round trip that ended in an error is made once more
FinishRetry(p, net) ==
    IF p.sends
    THEN LET e == Receive(p.end.req, p.request, net, p.end.printed)
         IN  IF e.outcome = Returned(Nil) THEN e ELSE [e EXCEPT !.sent = @ \o @]
    ELSE p.end

\* Finish with the status recorded as soon as there is a response, before the
\* length check and the reading of the body
FinishStatusFirst(p, net) ==
    IF p.sends
    THEN LET e == Receive(p.end.req, p.request, net, p.end.printed)
         IN  IF net.err THEN e ELSE [e EXCEPT !.req.statusCode = net.StatusCode]
    ELSE p.end

\* the call from p on: the round trip, when the call makes one
Finish(p, net) ==
    IF p.sends THEN Receive(p.end.req, p.request, net, p.end.printed) ELSE p.end

\* apiRequest.do on an apiRequest whose result and request are set; net is
\* what the round trip gives
do(result, request, apiMethod, ParamType, net, omitZero, valuesFail, bearer) ==
    Finish(Prepare(result, request, apiMethod, ParamType, omitZero, valuesFail, bearer),
           net)

\* checkErr: a non-nil error is printed
checkErr(err) == IF err # Nil THEN <<err.kind>> ELSE <<>>

----------------------------------------------------------------------------
(* The request values the callers pass *)

ProductCodes == {"", "PC"}
Emails == {"", "a@b.c"}
Usernames == {"", "alice", "%zz"}
Reasons == {"", "a&b"}
CSRs == {"", "PEM"}
Times == {ZeroTime, "2016-01-02T03:04:05Z", OutOfRangeTime}
Objects == {"", "{...}"}

IncludeSets ==
    {S \in SUBSET {IncludeFields[i].name : i \in 1..Len(IncludeFields)} :
        Cardinality(S) <= MaxIncludes}

\* r with the include flags of S set
Including(r, S) == [n \in DOMAIN r |-> IF n \in S THEN TRUE ELSE r[n]]

ProductDetailsRequests ==
    {[New("ProductDetailsRequest") EXCEPT !.ProductCode = p] : p \in ProductCodes}
QuoteRequests ==
    {[New("QuoteRequest") EXCEPT !.ProductCode = p, !.SubjectAltNameCount = n] :
        p \in ProductCodes, n \in 0..MaxCount}
ValidateCSRRequests == {[New("ValidateCSRRequest") EXCEPT !.CSR = c] : c \in CSRs}
UserAgreementRequests ==
    {[New("UserAgreementRequest") EXCEPT !.ProductCode = p] : p \in ProductCodes}
ApproverListRequests ==
    {[New("ApproverListRequest") EXCEPT !.CommonName = c, !.ProductCode = p] :
        c \in {"", "example.com"}, p \in ProductCodes}
OrderRequests ==
    {[New("OrderRequest") EXCEPT !.OrderParameters = o, !.AdminContact = a] :
        o \in Objects, a \in Objects}
PutApproverEmailRequests ==
    {[New("PutApproverEmailRequest") EXCEPT !.CertCenterOrderID = id, !.ApproverEmail = e] :
        id \in OrderIDs, e \in Emails}
ResendApproverEmailRequests ==
    {[New("ResendApproverEmailRequest") EXCEPT !.CertCenterOrderID = id] : id \in OrderIDs}
GetOrdersRequests ==
    {Including([New("GetOrdersRequest") EXCEPT !.Status = st], S) :
        st \in {"", "COMPLETE"}, S \in IncludeSets}
GetModifiedOrdersRequests ==
    {Including([New("GetModifiedOrdersRequest") EXCEPT !.FromDate = t], S) :
        t \in Times, S \in IncludeSets}
GetOrderRequests ==
    {Including([New("GetOrderRequest") EXCEPT !.CertCenterOrderID = id], S) :
        id \in OrderIDs, S \in IncludeSets}
DeleteOrderRequests ==
    {[New("DeleteOrderRequest") EXCEPT !.CertCenterOrderID = id] : id \in OrderIDs}
ReissueRequests ==
    {[New("ReissueRequest") EXCEPT !.CertCenterOrderID = id, !.OrderParameters = "{...}",
                                   !.ReissueEmail = e] :
        id \in OrderIDs, e \in Emails}
RevokeRequests ==
    {[New("RevokeRequest") EXCEPT !.CertCenterOrderID = id, !.RevokeReason = rr] :
        id \in OrderIDs, rr \in Reasons}
ValidateNameRequests ==
    {[New("ValidateNameRequest") EXCEPT !.CommonName = c, !.GeneratePrivateKey = g] :
        c \in {"", "example.com"}, g \in BOOLEAN}
DNSDataRequests == {[New("DNSDataRequest") EXCEPT !.CSR = c] : c \in CSRs}
FileDataRequests == {[New("FileDataRequest") EXCEPT !.CSR = c] : c \in CSRs}
VulnerabilityAssessmentRequests ==
    {[New("VulnerabilityAssessmentRequest") EXCEPT !.CertCenterOrderID = id,
                                                   !.ServiceStatus = st] :
        id \in OrderIDs, st \in {"", "Active"}}
VulnerabilityAssessmentRescanRequests ==
    {[New("VulnerabilityAssessmentRescanRequest") EXCEPT !.CertCenterOrderID = id] :
        id \in OrderIDs}
UpdateUserRequests ==
    {[New("UpdateUserRequest") EXCEPT !.UsernameOrUserId = u, !.FullName = f] :
        u \in Usernames, f \in {"", "Alice"}}
GetUserRequests ==
    {[New("GetUserRequest") EXCEPT !.UsernameOrUserId = u] : u \in Usernames}
DeleteUserRequests ==
    {[New("DeleteUserRequest") EXCEPT !.UsernameOrUserId = u] : u \in Usernames}

----------------------------------------------------------------------------
(* The state machine *)

\* two calls run concurrently, each given one of the caller's objects
Procs == {"a", "b"}
Addrs == 1..NumObjects

\* a call that has not been made: the locals of do and what it hands back
IdleFrame ==
    [pc |-> "idle", apiMethod |-> "", ParamType |-> <<>>, addr |-> 0,
     given |-> NilRequest, httpMethod |-> "", url |-> <<>>, hasBody |-> FALSE,
     postData |-> <<>>, net |-> [TransportError EXCEPT !.err = FALSE],
     sent |-> <<>>, outcome |-> [kind |-> "none", err |-> Nil]]

NoHeap == [a \in Addrs |-> NilRequest]
NoCalls == [p \in Procs |-> IdleFrame]

NoCall ==
    [fn |-> "", apiMethod |-> "", ParamType |-> <<>>, request |-> NilRequest,
     net |-> TransportError, valuesFail |-> FALSE]

Init ==
    /\ Bearer \in {"", "token"}
    /\ zeroOmitted \in BOOLEAN
    /\ call = NoCall
    /\ req = NewApiRequest
    /\ sent = <<>>
    /\ outcome = [kind |-> "none", err |-> Nil]
    /\ decoded = FALSE
    /\ stdout = <<>>
    /\ heap = NoHeap
    /\ calls = NoCalls

\* no call is under way: the last one, if any, has been consumed
Idle == call = NoCall

\* the round trip of a call that makes none
NoRoundTrip == [TransportError EXCEPT !.err = FALSE]

\* one call of do by fn; an operation function then hands the error to checkErr
Invoke(fn, resultType, request, apiMethod, ParamType, nets, checked) ==
    /\ Idle
    /\ \E valuesFail \in (IF CallsValues(apiMethod, ParamType) THEN BOOLEAN ELSE {FALSE}) :
       \E p \in {Prepare(NewResult(resultType), request, apiMethod, ParamType,
                         zeroOmitted, valuesFail, Bearer)} :
       \E net \in (IF p.sends THEN nets ELSE {NoRoundTrip}) :
       \E e \in {Finish(p, net)} :
           /\ call' = [fn |-> fn, apiMethod |-> apiMethod, ParamType |-> ParamType,
                       request |-> request, net |-> net, valuesFail |-> valuesFail]
           /\ req' = e.req
           /\ sent' = e.sent
           /\ outcome' = e.outcome
           /\ decoded' = e.decoded
           /\ stdout' = e.printed \o
                        (IF checked /\ e.outcome.kind = "return"
                         THEN checkErr(e.outcome.err) ELSE <<>>)
           /\ UNCHANGED <<Bearer, zeroOmitted, concVars>>

Call(fn, resultType, request, apiMethod, ParamType) ==
    Invoke(fn, resultType, request, apiMethod, ParamType, Nets, TRUE)

Profile ==
    /\ Idle
    /\ Call("Profile", "ProfileResult", NilRequest, "Profile", <<>>)

Limit ==
    /\ Idle
    /\ Call("Limit", "LimitResult", NilRequest, "Limit", <<>>)

Products ==
    /\ Idle
    /\ Call("Products", "ProductsResult", NilRequest, "Products", <<>>)

ProductDetails ==
    /\ Idle
    /\ \E request \in ProductDetailsRequests :
           Call("ProductDetails", "ProductDetailsResult", request,
                "ProductDetails", <<CC_PARAM_TYPE_QS>>)

Quote ==
    /\ Idle
    /\ \E request \in QuoteRequests :
           Call("Quote", "QuoteResult", request, "Quote", <<CC_PARAM_TYPE_QS>>)

ValidateCSR ==
    /\ Idle
    /\ \E request \in ValidateCSRRequests :
           Call("ValidateCSR", "ValidateCSRResult", request,
                "ValidateCSR", <<CC_PARAM_TYPE_BODY>>)

UserAgreement ==
    /\ Idle
    /\ \E request \in UserAgreementRequests :
           Call("UserAgreement", "UserAgreementResult", request,
                "UserAgreement", <<CC_PARAM_TYPE_QS>>)

ApproverList ==
    /\ Idle
    /\ \E request \in ApproverListRequests :
           Call("ApproverList", "ApproverListResult", request,
                "ApproverList", <<CC_PARAM_TYPE_QS>>)

Order ==
    /\ Idle
    /\ \E request \in OrderRequests :
           Call("Order", "OrderResult", request, "Order", <<CC_PARAM_TYPE_BODY>>)

PutApproverEmail ==
    /\ Idle
    /\ \E request \in PutApproverEmailRequests :
           Call("PutApproverEmail", "PutApproverEmailResult", request,
                "ApproverEmail", <<CC_PARAM_TYPE_QS + CC_PARAM_TYPE_PATH>>)

ResendApproverEmail ==
    /\ Idle
    /\ \E request \in ResendApproverEmailRequests :
           Call("ResendApproverEmail", "ResendApproverEmailResult", request,
                "ApproverEmail", <<CC_PARAM_TYPE_PATH>>)

GetOrders ==
    /\ Idle
    /\ \E request \in GetOrdersRequests :
           Call("GetOrders", "GetOrdersResult", request, "Orders", <<CC_PARAM_TYPE_QS>>)

GetModifiedOrders ==
    /\ Idle
    /\ \E request \in GetModifiedOrdersRequests :
           Call("GetModifiedOrders", "GetModifiedOrdersResult", request,
                "GetModifiedOrders", <<CC_PARAM_TYPE_QS>>)

GetOrder ==
    /\ Idle
    /\ \E request \in GetOrderRequests :
           Call("GetOrder", "GetOrderResult", request,
                "Order", <<CC_PARAM_TYPE_QS + CC_PARAM_TYPE_PATH>>)

DeleteOrder ==
    /\ Idle
    /\ \E request \in DeleteOrderRequests :
           Call("DeleteOrder", "DeleteOrderResult", request, "Order", <<CC_PARAM_TYPE_PATH>>)

Reissue ==
    /\ Idle
    /\ \E request \in ReissueRequests :
           Call("Reissue", "ReissueResult", request, "Reissue", <<CC_PARAM_TYPE_BODY>>)

Revoke ==
    /\ Idle
    /\ \E request \in RevokeRequests :
           Call("Revoke", "RevokeResult", request,
                "Revoke", <<CC_PARAM_TYPE_BODY + CC_PARAM_TYPE_PATH>>)

ValidateName ==
    /\ Idle
    /\ \E request \in ValidateNameRequests :
           Call("ValidateName", "ValidateNameResult", request,
                "ValidateName", <<CC_PARAM_TYPE_BODY>>)

DNSData ==
    /\ Idle
    /\ \E request \in DNSDataRequests :
           Call("DNSData", "DNSDataResult", request, "DNSData", <<CC_PARAM_TYPE_BODY>>)

FileData ==
    /\ Idle
    /\ \E request \in FileDataRequests :
           Call("FileData", "FileDataResult", request, "FileData", <<CC_PARAM_TYPE_BODY>>)

VulnerabilityAssessment ==
    /\ Idle
    /\ \E request \in VulnerabilityAssessmentRequests :
           Call("VulnerabilityAssessment", "VulnerabilityAssessmentResult", request,
                "VulnerabilityAssessment", <<CC_PARAM_TYPE_BODY>>)

VulnerabilityAssessmentRescan ==
    /\ Idle
    /\ \E request \in VulnerabilityAssessmentRescanRequests :
           Call("VulnerabilityAssessmentRescan", "VulnerabilityAssessmentRescanResult",
                request, "VulnerabilityAssessment", <<CC_PARAM_TYPE_PATH>>)

(* The dispatcher called directly, as the callers that are not among the   *)
(* sources (the User operations) and any other caller inside the package   *)
(* may: every operation name it tests for and one it does not, every flag  *)
(* set, every request type.  The handling of the response does not depend  *)
(* on the shaping, so three round trips stand for all.                     *)

ApiMethods ==
    {"ApproverEmail", "Order", "VulnerabilityAssessment", "User", "DeleteUser",
     "Revoke", "Quote"}

ParamTypes == {<<>>} \cup {<<p>> : p \in 0..7}

DispatchRequests ==
    {NilRequest}
    \cup {r \in QuoteRequests \cup OrderRequests \cup PutApproverEmailRequests
                 \cup ResendApproverEmailRequests \cup GetModifiedOrdersRequests
                 \cup GetOrderRequests \cup DeleteOrderRequests \cup RevokeRequests
                 \cup VulnerabilityAssessmentRequests
                 \cup VulnerabilityAssessmentRescanRequests :
            \A i \in 1..Len(IncludeFields) :
                IncludeFields[i].name \in DOMAIN r => ~r[IncludeFields[i].name]}
    \cup UpdateUserRequests \cup GetUserRequests \cup DeleteUserRequests

DispatchNets ==
    {TransportError,
     [err |-> FALSE, StatusCode |-> 200, ContentLength |-> SmallLen,
      body |-> [len |-> SmallLen, doc |-> "json"], readErr |-> FALSE],
     [err |-> FALSE, StatusCode |-> 401, ContentLength |-> -1,
      body |-> [len |-> 0, doc |-> "garbage"], readErr |-> FALSE]}

Dispatch ==
    /\ Idle
    /\ \E apiMethod \in ApiMethods, ParamType \in ParamTypes, request \in DispatchRequests :
           Invoke("do", "Result", request, apiMethod, ParamType, DispatchNets, FALSE)

\* the caller has used what the call returned; the apiRequest, its client and
\* its result are the call's own and are gone with it
Consume ==
    /\ ~Idle
    /\ call' = NoCall
    /\ req' = NewApiRequest
    /\ sent' = <<>>
    /\ outcome' = [kind |-> "none", err |-> Nil]
    /\ decoded' = FALSE
    /\ stdout' = <<>>
    /\ UNCHANGED <<Bearer, zeroOmitted, concVars>>

Next ==
    \/ Profile
    \/ Limit
    \/ Products
    \/ ProductDetails
    \/ Quote
    \/ ValidateCSR
    \/ UserAgreement
    \/ ApproverList
    \/ Order
    \/ PutApproverEmail
    \/ ResendApproverEmail
    \/ GetOrders
    \/ GetModifiedOrders
    \/ GetOrder
    \/ DeleteOrder
    \/ Reissue
    \/ Revoke
    \/ ValidateName
    \/ DNSData
    \/ FileData
    \/ VulnerabilityAssessment
    \/ VulnerabilityAssessmentRescan
    \/ Dispatch
    \/ Consume

Spec == Init /\ [][Next]_vars

----------------------------------------------------------------------------
(* Two concurrent calls of the dispatcher.  A call is a sequence of steps, *)
(* one per access to what it shares with the other call: the request       *)
(* object it was given (read when the path is built, written by the User   *)
(* branch, read again when it is serialized) and Bearer (read when the     *)
(* request is built).  Everything else (the apiRequest, the client, the    *)
(* URL, the result) is the call's own.  The calls are those that reach the *)
(* BODY and BODY|PATH branches with a Revoke or User operation name.       *)

ConcurrentObjects ==
    {[New("UpdateUserRequest") EXCEPT !.UsernameOrUserId = u] : u \in Usernames}
    \cup {[New("RevokeRequest") EXCEPT !.CertCenterOrderID = OrderIDStep]}

ConcurrentMethods == {"User", "Revoke"}

ConcurrentParamTypes ==
    {<<CC_PARAM_TYPE_BODY>>, <<CC_PARAM_TYPE_BODY + CC_PARAM_TYPE_PATH>>}

InitConcurrent ==
    /\ Bearer \in {"", "token"}
    /\ zeroOmitted \in BOOLEAN
    /\ call = NoCall
    /\ req = NewApiRequest
    /\ sent = <<>>
    /\ outcome = [kind |-> "none", err |-> Nil]
    /\ decoded = FALSE
    /\ stdout = <<>>
    /\ heap \in [Addrs -> ConcurrentObjects]
    /\ calls = NoCalls

\* lines 15-30: the call is made with the object at address a
Enter(p) ==
    /\ calls[p].pc = "idle"
    /\ \E apiMethod \in ConcurrentMethods, ParamType \in ConcurrentParamTypes, a \in Addrs :
           calls' = [calls EXCEPT ![p] =
                        [IdleFrame EXCEPT !.pc = "shape", !.apiMethod = apiMethod,
                                          !.ParamType = ParamType, !.addr = a,
                                          !.given = heap[a], !.httpMethod = "GET",
                                          !.url = rawURL \o <<apiMethod>>]]
    /\ UNCHANGED <<Bearer, zeroOmitted, seqVars, heap>>

\* lines 41-42 and 83-90: the method is set and the path is built from the
\* field of the request object as it is now
ReadPath(p) ==
    /\ calls[p].pc = "shape"
    /\ LET f == calls[p]
           r == heap[f.addr]
       IN  calls' = [calls EXCEPT ![p] =
               IF f.ParamType = <<CC_PARAM_TYPE_BODY>>
               THEN [f EXCEPT !.pc = "marshal", !.httpMethod = "POST"]
               ELSE IF f.apiMethod = "Revoke"
               THEN IF IsType(r, "RevokeRequest")
                    THEN [f EXCEPT !.pc = "marshal", !.httpMethod = "DELETE",
                                   !.url = @ \o <<"/">> \o Itoa(r.CertCenterOrderID)]
                    ELSE [f EXCEPT !.pc = "done", !.httpMethod = "DELETE",
                                   !.outcome = Aborted]
               ELSE IF IsType(r, "UpdateUserRequest")
                    THEN [f EXCEPT !.pc = "clear", !.httpMethod = "POST",
                                   !.url = @ \o <<"/">> \o Str(r.UsernameOrUserId)]
                    ELSE [f EXCEPT !.pc = "done", !.httpMethod = "POST",
                                   !.outcome = Aborted]]
    /\ UNCHANGED <<Bearer, zeroOmitted, seqVars, heap>>

\* line 90 while another call is about to store into the same field (line 91):
\* the two-word string is read while it is written, and a read that pairs the
\* old length with the new data pointer faults
TornRead(p) ==
    /\ calls[p].pc = "shape"
    /\ calls[p].apiMethod = "User"
    /\ calls[p].ParamType = <<CC_PARAM_TYPE_BODY + CC_PARAM_TYPE_PATH>>
    /\ IsType(heap[calls[p].addr], "UpdateUserRequest")
    /\ heap[calls[p].addr].UsernameOrUserId # ""
    /\ \E q \in Procs \ {p} : calls[q].pc = "clear" /\ calls[q].addr = calls[p].addr
    /\ calls' = [calls EXCEPT ![p].pc = "done", ![p].httpMethod = "POST",
                              ![p].outcome = Aborted]
    /\ UNCHANGED <<Bearer, zeroOmitted, seqVars, heap>>

\* line 91: the field of the caller's object is cleared
ClearField(p) ==
    /\ calls[p].pc = "clear"
    /\ heap' = [heap EXCEPT ![calls[p].addr].UsernameOrUserId = ""]
    /\ calls' = [calls EXCEPT ![p].pc = "marshal"]
    /\ UNCHANGED <<Bearer, zeroOmitted, seqVars>>

\* lines 43-47 and 93-97: the request object as it is now is serialized
Serialize(p) ==
    /\ calls[p].pc = "marshal"
    /\ LET f == calls[p]
           r == heap[f.addr]
       IN  calls' = [calls EXCEPT ![p] =
               IF MarshalFails(r)
               THEN [f EXCEPT !.pc = "done", !.outcome = Returned(Error("marshal", 0))]
               ELSE [f EXCEPT !.pc = "send", !.hasBody = TRUE, !.postData = Marshal(r)]]
    /\ UNCHANGED <<Bearer, zeroOmitted, seqVars, heap>>

\* lines 101-137: the request is built with Bearer as it is now, the round
\* trip is made and the response handled
RoundTrip(p) ==
    /\ calls[p].pc = "send"
    /\ LET f == calls[p]
           fails == NewRequestFails(f.httpMethod, f.url)
           request == NewRequest(f.httpMethod, f.url, f.hasBody, f.postData, Bearer)
           r == [NewApiRequest EXCEPT !.result = NewResult("Result")]
       IN  \E net \in (IF fails THEN {IdleFrame.net} ELSE DispatchNets) :
               calls' = [calls EXCEPT ![p] =
                   IF fails
                   THEN [f EXCEPT !.pc = "done",
                                  !.outcome = Returned(Error("newrequest", 0))]
                   ELSE [f EXCEPT !.pc = "done", !.net = net, !.sent = <<request>>,
                                  !.outcome = Receive(r, request, net, <<>>).outcome]]
    /\ UNCHANGED <<Bearer, zeroOmitted, seqVars, heap>>

\* the caller has what the call returned
Return(p) ==
    /\ calls[p].pc = "done"
    /\ calls' = [calls EXCEPT ![p] = IdleFrame]
    /\ UNCHANGED <<Bearer, zeroOmitted, seqVars, heap>>

NextConcurrent ==
    \E p \in Procs :
        \/ Enter(p)
        \/ ReadPath(p)
        \/ TornRead(p)
        \/ ClearField(p)
        \/ Serialize(p)
        \/ RoundTrip(p)
        \/ Return(p)

SpecConcurrent == InitConcurrent /\ [][NextConcurrent]_vars

----------------------------------------------------------------------------
(* Properties.  A call has been made when call.fn is set; it made its      *)
(* round trip when it sent a request, and it received a response when the  *)
(* round trip did not fail.                                                *)

Called == call.fn # ""
Sent == Len(sent) > 0
Received == Sent /\ ~call.net.err
FlagSet == call.ParamType # <<>>
HasFlag(bit) == FlagSet /\ (call.ParamType[1] \div bit) % 2 = 1
Flags(p) == call.ParamType = <<p>>

\* C1: GetOrder with a numeric CertCenterOrderID, IncludeFulfillment true and
\* every other field zero sends exactly one request, GET
\* base/Order/<id>?includeFulfillment=true, the id only in the path.
C1_GetOrderUrl ==
    (/\ call.fn = "GetOrder"
     /\ ~call.valuesFail
     /\ call.request = [New("GetOrderRequest") EXCEPT
                           !.CertCenterOrderID = call.request.CertCenterOrderID,
                           !.IncludeFulfillment = TRUE])
    => /\ Len(sent) = 1
       /\ sent[1].method = "GET"
       /\ sent[1].url = rawURL \o <<"Order", "/">> \o Itoa(call.request.CertCenterOrderID)
                            \o <<"?", "includeFulfillment", "=", "true">>

\* C2: a response with status 401 gives the authorization-failure error,
\* whatever its declared content length and body, and the result object is not
\* populated.  The responses taken are those whose body can be read.
C2_Unauthorized ==
    (Received /\ call.net.StatusCode = 401 /\ ~call.net.readErr)
    => /\ outcome = Returned(Error("auth", 0))
       /\ req.result.data = "zero"

\* C3: a response with status 406 or 417 gives no error, also when its body is
\* empty (a declared length of zero, or a body of zero bytes).  The responses
\* taken are those that can be read, are not oversized and whose body is empty
\* or a document of the result type.
C3_RecoverableEmpty ==
    (/\ Received
     /\ call.net.StatusCode \in {406, 417}
     /\ ~call.net.readErr
     /\ call.net.ContentLength <= MaxContentLength
     /\ call.net.body.len <= MaxContentLength
     /\ call.net.body.len = 0 \/ call.net.body.doc = "json")
    => outcome = Returned(Nil)

\* C4: a response whose body is larger than 16 MiB or empty gives an error and
\* its body is never handed to the JSON decoder, for every status and also when
\* the declared length is unknown.
C4_LengthBeforeDecode ==
    (/\ Received
     /\ ~call.net.readErr
     /\ call.net.body.len > MaxContentLength \/ call.net.body.len = 0)
    => /\ outcome.kind = "return"
       /\ outcome.err # Nil
       /\ ~decoded

\* C5: when the round trip fails with a transport error the call returns that
\* error; it does not abort.
C5_TransportError ==
    (Sent /\ call.net.err) => outcome = Returned(Error("transport", 0))

\* C6: no operation function, called with a request of its parameter type,
\* aborts while the request is shaped.
C6_NoAbortInShaping ==
    (Called /\ call.fn # "do") => ~(outcome.kind = "panic" /\ ~Sent)

\* C7: under every flag set with BODY in it, and every operation name, the
\* request sent carries the JSON text of the request object.
C7_BodyFlagSendsJson ==
    (Sent /\ HasFlag(CC_PARAM_TYPE_BODY))
    => /\ sent[1].hasBody
       /\ sent[1].body = Marshal(req.request)

\* C8: under BODY|PATH the field put into the path (CertCenterOrderID of a
\* Revoke, UsernameOrUserId of a User update) is cleared before the request
\* object is serialized, so the body does not repeat the value.
C8_PathFieldCleared ==
    (Sent /\ Flags(CC_PARAM_TYPE_BODY + CC_PARAM_TYPE_PATH))
    => /\ call.apiMethod = "Revoke" =>
            /\ req.request.CertCenterOrderID = 0
            /\ sent[1].body = Marshal([call.request EXCEPT !.CertCenterOrderID = 0])
       /\ call.apiMethod = "User" =>
            /\ req.request.UsernameOrUserId = ""
            /\ sent[1].body = Marshal([call.request EXCEPT !.UsernameOrUserId = ""])

GenericStatus ==
    /\ Received
    /\ call.net.StatusCode \notin {200, 401, 406, 417}
    /\ call.net.ContentLength # 0
    /\ call.net.ContentLength <= MaxContentLength

StatusErrorOnly ==
    /\ outcome = Returned(Error("status", call.net.StatusCode))
    /\ ~decoded
    /\ req.result.data = "zero"

\* C10 as stated: every such response gives the generic status error carrying
\* the status code, and the body is not decoded.
C10_GenericStatusError == GenericStatus => StatusErrorOnly

\* C10, amended: every such response whose body is read without error gives the
\* generic status error carrying the status code, and the body is not decoded.
C10_GenericStatusErrorRead == (GenericStatus /\ ~call.net.readErr) => StatusErrorOnly

\* a 404 whose body was read ended as the status error
C10_Witness ==
    /\ GenericStatus
    /\ ~call.net.readErr
    /\ call.net.StatusCode = 404
    /\ outcome = Returned(Error("status", 404))

\* C11: one call sends at most one HTTP request, however it ends, and a call
\* that fails while the request object is serialized (to JSON or to a query
\* string) sends none.
C11_SingleRequest ==
    Called => /\ Len(sent) <= 1
              /\ outcome \in {Returned(Error("marshal", 0)), Returned(Error("values", 0))}
                    => sent = <<>>

\* a call that was answered with status 500 returned after its one request
C11_Witness ==
    /\ Received
    /\ outcome = Returned(Error("status", 500))
    /\ Len(sent) = 1

\* what the call with locals f produces when it runs alone on the object as it
\* was when the call was made
Alone(f) ==
    do(NewResult("Result"), f.given, f.apiMethod, f.ParamType, f.net,
       zeroOmitted, FALSE, Bearer)

\* C12: in every interleaving of two concurrent calls, also of two calls given
\* the same request object, the request each call sends and the outcome it
\* returns are those of the call run alone.
C12_ConcurrentAsAlone ==
    \A p \in Procs :
        (calls[p].pc = "done" /\ calls[p].sent # <<>>)
        => /\ calls[p].sent = Alone(calls[p]).sent
           /\ calls[p].outcome = Alone(calls[p]).outcome

\* C13: every request sent carries exactly one Authorization header, "Bearer "
\* followed by the process-wide token, is addressed to the fixed base followed
\* by the operation path, and goes through a client whose minimum TLS version
\* is 1.2.
C13_AuthBaseTls ==
    Sent =>
    /\ DOMAIN sent[1].header = {"Authorization", "Content-Type"}
    /\ sent[1].header["Authorization"] = <<(<<"Bearer ">> \o Str(Bearer))>>
    /\ Len(sent[1].url) >= 2
    /\ sent[1].url[1] = "https://api.certcenter.com/rest/v1/"
    /\ sent[1].url[2] = (IF call.apiMethod = "DeleteUser" /\ Flags(CC_PARAM_TYPE_PATH)
                         THEN "User" ELSE call.apiMethod)
    /\ req.client.MinVersion = "TLS1.2"

\* a request went out with the token in its one Authorization header
C13_Witness ==
    /\ Sent
    /\ Bearer = "token"
    /\ sent[1].header["Authorization"] = <<(<<"Bearer ", "token">>)>>

\* the responses C14 is about: status 200 and a declared length that is accepted
OkResponse ==
    /\ Received
    /\ call.net.StatusCode = 200
    /\ call.net.ContentLength # 0
    /\ call.net.ContentLength <= MaxContentLength

\* the outcome is the decode outcome: a document of the result type populates
\* the result and gives no error, any other body gives the decode error
DecodeOutcome ==
    /\ decoded
    /\ (call.net.body.len > 0 /\ call.net.body.doc = "json")
          => outcome = Returned(Nil) /\ req.result.data = "full"
    /\ ~(call.net.body.len > 0 /\ call.net.body.doc = "json")
          => outcome = Returned(Error("decode", 0))

\* an operation function that returns an error returns its result object too
ResultReturned ==
    (Called /\ call.fn # "do" /\ outcome.kind = "return" /\ outcome.err # Nil)
    => req.result.type # "nil"

C15_ModifiedOrdersEndpoint ==
    (call.fn = "GetModifiedOrders" /\ Sent)
    => /\ sent[1].method = "GET"
       /\ Len(sent[1].url) >= 3
       /\ SubSeq(sent[1].url, 1, 3) = rawURL \o <<"ModifiedOrders", "?">>

\* C16: for every operation name and flag set the request object after the
\* call equals the request object before it.
C16_RequestUnchanged == Called => req.request = call.request

\* C17: under every operation name and flag set a request that carries a body
\* is not a GET.
C17_NoBodyOnGet == Sent => (sent[1].hasBody => sent[1].method # "GET")

\* the errors that arise before the response is read, and before it is decoded
EarlyErrors == {"marshal", "values", "newrequest", "length", "read"}
PreDecodeErrors == EarlyErrors \cup {"auth", "status"}

\* C18: an error that arises before JSON decoding leaves the result object as
\* allocated, and an error that arises before the response is read leaves the
\* recorded statusCode unchanged.
C18_ErrorLeavesResult ==
    (Called /\ outcome.kind = "return")
    => /\ outcome.err.kind \in PreDecodeErrors
            => ~decoded /\ req.result.data = "zero"
       /\ outcome.err.kind \in EarlyErrors => req.statusCode = 0

\* a 404 whose body could not be read ended with no status recorded
C18_Witness ==
    /\ Received
    /\ call.net.StatusCode = 404
    /\ outcome = Returned(Error("read", 0))
    /\ req.statusCode = 0
    /\ req.result.data = "zero"

====
